---- MODULE Spec2Model ----
(***************************************************************************)
(* The Flask todo API of examples/dockerfiles/todos-api-flask/app.py: an   *)
(* in-memory mapping todos (id -> record) and the counter next_id, served  *)
(* by one handler per route.  In Spec requests are handled one at a time,  *)
(* each handler from start to finish; in SpecConc and SpecRace the threads *)
(* of app.run run the handlers statement by statement, interleaved.        *)
(*                                                                         *)
(* JSON scalars are records [type, val]; a parsed request body is a record *)
(* [kind, obj, seq, atom].  datetime.utcnow() is a clock that never goes   *)
(* backwards: every call returns a value at or after the last one read.    *)
(***************************************************************************)
EXTENDS Integers, Sequences, FiniteSets, TLC

VARIABLES
    todos,      \* app.py:65   id -> todo record
    next_id,    \* app.py:66   the id the next create assigns
    now,        \* the latest value datetime.utcnow() has returned
    issued,     \* history: the ids returned by successful creates, in order
    deleted,    \* history: the ids of successful deletes
    n_deleted,  \* history: the number of successful deletes
    born,       \* history: id -> the created_at its create returned
    written,    \* history: id -> the record its latest successful create, PUT
                \* or PATCH returned; forgotten when a DELETE of it succeeds
    threads     \* app.run's worker threads: per thread, the request it is
                \* handling, the line it has reached, its local variables

vars == <<todos, next_id, now, issued, deleted, n_deleted, born, written, threads>>

----------------------------------------------------------------------------
(* Bounds of the model. *)

\* successful creates in one run
MaxTodos == 2
\* the threads that handle requests at the same time
MaxThreads == 2
\* the clock's last value, in ticks of one microsecond
MaxClock == 1
\* microseconds in a second (scaled down from 10^6)
TicksPerSecond == 2

----------------------------------------------------------------------------
(* JSON values. *)

JStr(s) == [type |-> "string", val |-> s]
JTrue == [type |-> "bool", val |-> "true"]
JFalse == [type |-> "bool", val |-> "false"]
JNum(s) == [type |-> "number", val |-> s]
JNull == [type |-> "null", val |-> "null"]

EmptyObj == [k \in {} |-> JFalse]

\* a JSON object: keys to values
Obj(f) == [kind |-> "object", obj |-> f, seq |-> <<>>, atom |-> ""]
\* a JSON array of scalars
Arr(s) == [kind |-> "array", obj |-> EmptyObj, seq |-> s, atom |-> ""]
\* a JSON string, as the sequence of its segments: a segment is a field name
\* or a text that contains none
Str(s) == [kind |-> "string", obj |-> EmptyObj, seq |-> s, atom |-> ""]
Num(a) == [kind |-> "number", obj |-> EmptyObj, seq |-> <<>>, atom |-> a]
Bool(a) == [kind |-> "bool", obj |-> EmptyObj, seq |-> <<>>, atom |-> a]
Null == [kind |-> "null", obj |-> EmptyObj, seq |-> <<>>, atom |-> "null"]
\* a body get_json() cannot parse (werkzeug raises BadRequest)
Malformed == [kind |-> "malformed", obj |-> EmptyObj, seq |-> <<>>, atom |-> ""]
\* the body of a request whose content type is not JSON: never parsed
NoData == [kind |-> "none", obj |-> EmptyObj, seq |-> <<>>, atom |-> ""]

\* the JSON objects the requests of a run carry
ObjectBodies ==
    { Obj(EmptyObj),
      Obj("title" :> JStr("a")),
      Obj("title" :> JStr("")),
      Obj(("description" :> JStr("d")) @@ ("completed" :> JTrue)
            @@ ("id" :> JNum("99")) @@ ("created_at" :> JStr("x"))) }

\* the JSON documents that are not objects the requests of a run carry
OtherBodies ==
    { Null, Num("5"), Bool("true"), Arr(<<JStr("title")>>), Str(<<"hi">>), Malformed }

\* further bodies, which a handler is tried on in every state a run reaches
MoreBodies ==
    { Obj("completed" :> JTrue),
      Obj(("title" :> JStr("b")) @@ ("description" :> JStr("")) @@ ("completed" :> JFalse)),
      Obj("title" :> JNull),
      Num("0"), Arr(<<>>), Str(<<"my ", "title">>), Str(<<"description">>) }

SentBodies == ObjectBodies \cup OtherBodies

JsonBodies == SentBodies \cup MoreBodies

\* what request.get_json() returns in a run, given request.is_json
SentOf(is_json) == IF is_json THEN SentBodies ELSE {NoData}

\* what request.get_json() can return, given request.is_json
BodiesOf(is_json) == IF is_json THEN JsonBodies ELSE {NoData}

\* Python's truth value of a parsed body (`not data`)
Truthy(data) ==
    CASE data.kind = "object" -> DOMAIN data.obj # {}
      [] data.kind \in {"array", "string"} -> data.seq # <<>>
      [] data.kind = "number" -> data.atom # "0"
      [] data.kind = "bool" -> data.atom = "true"
      [] OTHER -> FALSE

\* Python's `key in data`: key lookup in a dict, element test in a list,
\* substring test in a str, TypeError for None, a number or a bool
In(key, data) ==
    CASE data.kind = "object" -> IF key \in DOMAIN data.obj THEN "yes" ELSE "no"
      [] data.kind = "array" ->
            IF \E i \in 1..Len(data.seq) : data.seq[i] = JStr(key) THEN "yes" ELSE "no"
      [] data.kind = "string" ->
            IF \E i \in 1..Len(data.seq) : data.seq[i] = key THEN "yes" ELSE "no"
      [] OTHER -> "TypeError"

\* Python's data.get(key, default) on a dict
Get(data, key, default) ==
    IF key \in DOMAIN data.obj THEN data.obj[key] ELSE default

----------------------------------------------------------------------------
(* Timestamps: datetime.utcnow().isoformat() + 'Z'. *)

\* isoformat() leaves the fraction out when the microsecond is 0
isoformat(t) ==
    IF t % TicksPerSecond = 0
    THEN <<t \div TicksPerSecond, "Z">>
    ELSE <<t \div TicksPerSecond, ".", t % TicksPerSecond, "Z">>

\* the instant a timestamp names
Instant(s) ==
    IF Len(s) = 2 THEN s[1] * TicksPerSecond ELSE s[1] * TicksPerSecond + s[3]

\* the values a call of utcnow() can return, given the last one returned
Clock(after) == after..MaxClock

----------------------------------------------------------------------------
(* Responses: jsonify(...) and the status code. *)

ErrorBody(msg) == [kind |-> "error", error |-> msg]
TodoBody(todo) == [kind |-> "todo", todo |-> todo]
\* variant: the message names no id
NotFoundAnonymous(todo_id) == ErrorBody(<<"Todo not found">>)

NotFound(todo_id) == ErrorBody(<<"Todo with id ", todo_id, " not found">>)
BadContentType == ErrorBody(<<"Content-Type must be application/json">>)
MissingTitle == ErrorBody(<<"Missing required field: title">>)

\* exceptions raised while a handler runs
TypeError == [http |-> FALSE, code |-> 0, description |-> <<"TypeError">>]
\* werkzeug's BadRequest, raised by get_json() on a body it cannot parse
BadRequest == [http |-> TRUE, code |-> 400,
               description |-> <<"The browser (or proxy) sent a request that this server could not understand.">>]

\* what a handler leaves behind: the response and the store
Reply(status, body, store, counter, clock) ==
    [status |-> status, body |-> body, todos |-> store, next_id |-> counter, now |-> clock]

\* log_operation(operation, ...) called while the handler produced reply r:
\* one record on the logger, named by its operation
log_operation(operation, r) ==
    [status |-> r.status, body |-> r.body, todos |-> r.todos, next_id |-> r.next_id,
     now |-> r.now, log |-> <<operation>>]

\* handle_error that logs nothing for an HTTPException
handle_error_silent(error, store) ==
    IF error.http
    THEN [status |-> error.code, body |-> ErrorBody(error.description), todos |-> store,
          next_id |-> next_id, now |-> now, log |-> <<>>]
    ELSE log_operation("Unhandled exception",
                       Reply(500, ErrorBody(<<"Internal server error">>), store, next_id, now))

\* handle_error that answers with the exception's own message
handle_error_verbose(error, store) ==
    IF error.http
    THEN log_operation("http_error",
                       Reply(error.code, ErrorBody(error.description), store, next_id, now))
    ELSE log_operation("Unhandled exception",
                       Reply(500, ErrorBody(error.description), store, next_id, now))

\* app.errorhandler(Exception): the response for an exception a handler raised,
\* with the store as the handler left it
handle_error(error, store) ==
    IF error.http
    THEN log_operation("http_error",
                       Reply(error.code, ErrorBody(error.description), store, next_id, now))
    \* logger.error("Unhandled exception: ...", exc_info=True)
    ELSE log_operation("Unhandled exception",
                       Reply(500, ErrorBody(<<"Internal server error">>), store, next_id, now))

\* the ids of S in ascending order: the insertion order of the dict
RECURSIVE Ascending(_)
Ascending(S) ==
    IF S = {} THEN <<>>
    ELSE LET m == CHOOSE x \in S : \A y \in S : x <= y
         IN <<m>> \o Ascending(S \ {m})

\* list(todos.values())
Values(store) == LET ids == Ascending(DOMAIN store)
                 IN [i \in 1..Len(ids) |-> store[ids[i]]]

----------------------------------------------------------------------------
(* The handlers.  Each takes the request and the values its utcnow() calls *)
(* return, reads the state, and gives the response and the state it leaves. *)

\* GET /health
health_check(t) ==
    log_operation("health_check",
        Reply(200,
              [kind |-> "health", status |-> "healthy", timestamp |-> isoformat(t),
               todos_count |-> Cardinality(DOMAIN todos)],
              todos, next_id, t))

\* GET /todos
get_todos ==
    LET todos_list == Values(todos)
    IN log_operation("get_all_todos",
           Reply(200, [kind |-> "list", todos |-> todos_list, count |-> Len(todos_list)],
                 todos, next_id, now))

\* GET /todos/<id>
get_todo(todo_id) ==
    IF todo_id \notin DOMAIN todos
    THEN log_operation("get_todo_not_found", Reply(404, NotFound(todo_id), todos, next_id, now))
    ELSE log_operation("get_todo", Reply(200, TodoBody(todos[todo_id]), todos, next_id, now))

\* create_todo with the id taken from the size of the store, len(todos) + 1,
\* instead of the counter
create_todo_by_len(is_json, data, t1, t2) ==
    IF ~is_json
    THEN log_operation("create_todo_invalid_content_type",
                       Reply(400, BadContentType, todos, next_id, now))
    ELSE IF data.kind = "malformed" THEN handle_error(BadRequest, todos)
    ELSE IF ~Truthy(data) THEN log_operation("create_todo_missing_title",
                            Reply(400, MissingTitle, todos, next_id, now))
    ELSE IF In("title", data) = "TypeError" THEN handle_error(TypeError, todos)
    ELSE IF In("title", data) = "no" THEN log_operation("create_todo_missing_title",
                            Reply(400, MissingTitle, todos, next_id, now))
    ELSE IF data.kind # "object" THEN handle_error(TypeError, todos)
    ELSE LET by_len == Cardinality(DOMAIN todos) + 1
             todo == [id |-> by_len,
                      title |-> data.obj["title"],
                      description |-> Get(data, "description", JStr("")),
                      completed |-> Get(data, "completed", JFalse),
                      created_at |-> isoformat(t1),
                      updated_at |-> isoformat(t2)]
         IN log_operation("create_todo",
                          Reply(201, TodoBody(todo), (by_len :> todo) @@ todos, next_id + 1, t2))

\* create_todo without the `next_id += 1` of line 185
create_todo_no_increment(is_json, data, t1, t2) ==
    IF ~is_json
    THEN log_operation("create_todo_invalid_content_type",
                       Reply(400, BadContentType, todos, next_id, now))
    ELSE IF data.kind = "malformed" THEN handle_error(BadRequest, todos)
    ELSE IF ~Truthy(data) \/ In("title", data) = "no"
    THEN log_operation("create_todo_missing_title",
                       Reply(400, MissingTitle, todos, next_id, now))
    ELSE IF In("title", data) = "TypeError" \/ data.kind # "object"
    THEN handle_error(TypeError, todos)
    ELSE LET todo == [id |-> next_id,
                      title |-> data.obj["title"],
                      description |-> Get(data, "description", JStr("")),
                      completed |-> Get(data, "completed", JFalse),
                      created_at |-> isoformat(t1),
                      updated_at |-> isoformat(t2)]
         IN log_operation("create_todo",
                          Reply(201, TodoBody(todo), (next_id :> todo) @@ todos, next_id, t2))

\* POST /todos; t1 and t2 are the two utcnow() calls of lines 178 and 179
create_todo(is_json, data, t1, t2) ==
    IF ~is_json
    THEN log_operation("create_todo_invalid_content_type",
                       Reply(400, BadContentType, todos, next_id, now))
    ELSE IF data.kind = "malformed" THEN handle_error(BadRequest, todos)
    ELSE IF ~Truthy(data) THEN log_operation("create_todo_missing_title",
                            Reply(400, MissingTitle, todos, next_id, now))
    ELSE IF In("title", data) = "TypeError" THEN handle_error(TypeError, todos)
    ELSE IF In("title", data) = "no" THEN log_operation("create_todo_missing_title",
                            Reply(400, MissingTitle, todos, next_id, now))
    \* data['title'] on a list or a str
    ELSE IF data.kind # "object" THEN handle_error(TypeError, todos)
    ELSE LET todo == [id |-> next_id,
                      title |-> data.obj["title"],
                      description |-> Get(data, "description", JStr("")),
                      completed |-> Get(data, "completed", JFalse),
                      created_at |-> isoformat(t1),
                      updated_at |-> isoformat(t2)]
         IN log_operation("create_todo",
                          Reply(201, TodoBody(todo), (next_id :> todo) @@ todos, next_id + 1, t2))

\* SetIfPresent as a full replacement would do it: a key the body lacks
\* resets the field to its default
SetOrReset(st, key, data) ==
    IF st.raised THEN st
    ELSE CASE In(key, data) = "TypeError" -> [st EXCEPT !.raised = TRUE]
           [] In(key, data) = "no" ->
                [st EXCEPT !.todo[key] = IF key = "completed" THEN JFalse ELSE JStr("")]
           [] OTHER -> IF data.kind = "object"
                       THEN [st EXCEPT !.todo[key] = data.obj[key]]
                       ELSE [st EXCEPT !.raised = TRUE]

\* `if key in data: todos[todo_id][key] = data[key]`, on st = [todo, raised]:
\* the record being updated in place and whether an exception was raised
SetIfPresent(st, key, data) ==
    IF st.raised THEN st
    ELSE CASE In(key, data) = "TypeError" -> [st EXCEPT !.raised = TRUE]
           [] In(key, data) = "no" -> st
           [] OTHER -> IF data.kind = "object"
                       THEN [st EXCEPT !.todo[key] = data.obj[key]]
                       ELSE [st EXCEPT !.raised = TRUE]

\* Stamp that stamps created_at as well
StampBoth(todo, t) ==
    [todo EXCEPT !.created_at = isoformat(t), !.updated_at = isoformat(t)]

\* Stamp that copies the record's other timestamp instead of reading the clock
StampStale(todo, t) == [todo EXCEPT !.updated_at = todo.created_at]

\* todos[todo_id]['updated_at'] = datetime.utcnow().isoformat() + 'Z'
Stamp(todo, t) == [todo EXCEPT !.updated_at = isoformat(t)]

\* update_todo that answers with old_todo, the copy taken before the update
update_todo_returns_old(todo_id, is_json, data, t) ==
    IF todo_id \notin DOMAIN todos
    THEN log_operation("update_todo_not_found", Reply(404, NotFound(todo_id), todos, next_id, now))
    ELSE IF ~is_json
    THEN log_operation("update_todo_invalid_content_type",
                       Reply(400, BadContentType, todos, next_id, now))
    ELSE IF data.kind = "malformed" THEN handle_error(BadRequest, todos)
    ELSE LET old_todo == todos[todo_id]
             s0 == [todo |-> todos[todo_id], raised |-> FALSE]
             s1 == SetIfPresent(s0, "title", data)
             s2 == SetIfPresent(s1, "description", data)
             s3 == SetIfPresent(s2, "completed", data)
             new == Stamp(s3.todo, t)
         IN IF s3.raised
            THEN handle_error(TypeError, [todos EXCEPT ![todo_id] = s3.todo])
            ELSE log_operation("update_todo",
                               Reply(200, TodoBody(old_todo), [todos EXCEPT ![todo_id] = new],
                                     next_id, t))

\* PUT /todos/<id>
update_todo(todo_id, is_json, data, t) ==
    IF todo_id \notin DOMAIN todos
    THEN log_operation("update_todo_not_found", Reply(404, NotFound(todo_id), todos, next_id, now))
    ELSE IF ~is_json
    THEN log_operation("update_todo_invalid_content_type",
                       Reply(400, BadContentType, todos, next_id, now))
    ELSE IF data.kind = "malformed" THEN handle_error(BadRequest, todos)
    ELSE LET s0 == [todo |-> todos[todo_id], raised |-> FALSE]
             s1 == SetIfPresent(s0, "title", data)
             s2 == SetIfPresent(s1, "description", data)
             s3 == SetIfPresent(s2, "completed", data)
             new == Stamp(s3.todo, t)
         IN IF s3.raised
            THEN handle_error(TypeError, [todos EXCEPT ![todo_id] = s3.todo])
            ELSE log_operation("update_todo",
                               Reply(200, TodoBody(new), [todos EXCEPT ![todo_id] = new],
                                     next_id, t))

\* patch_todo with the content type checked before the id is looked up
patch_todo_type_first(todo_id, is_json, data, t) ==
    IF ~is_json
    THEN log_operation("patch_todo_invalid_content_type",
                       Reply(400, BadContentType, todos, next_id, now))
    ELSE IF todo_id \notin DOMAIN todos
    THEN log_operation("patch_todo_not_found", Reply(404, NotFound(todo_id), todos, next_id, now))
    ELSE IF data.kind = "malformed" THEN handle_error(BadRequest, todos)
    ELSE LET title == SetIfPresent([todo |-> todos[todo_id], raised |-> FALSE], "title", data)
             description == SetIfPresent(title, "description", data)
             completed == SetIfPresent(description, "completed", data)
         IN IF completed.raised
            THEN handle_error(TypeError, [todos EXCEPT ![todo_id] = completed.todo])
            ELSE LET patched == Stamp(completed.todo, t)
                 IN log_operation("patch_todo",
                                  Reply(200, TodoBody(patched),
                                        [todos EXCEPT ![todo_id] = patched], next_id, t))

\* PATCH /todos/<id>
patch_todo(todo_id, is_json, data, t) ==
    IF todo_id \notin DOMAIN todos
    THEN log_operation("patch_todo_not_found", Reply(404, NotFound(todo_id), todos, next_id, now))
    ELSE IF ~is_json
    THEN log_operation("patch_todo_invalid_content_type",
                       Reply(400, BadContentType, todos, next_id, now))
    ELSE IF data.kind = "malformed" THEN handle_error(BadRequest, todos)
    ELSE LET title == SetIfPresent([todo |-> todos[todo_id], raised |-> FALSE], "title", data)
             description == SetIfPresent(title, "description", data)
             completed == SetIfPresent(description, "completed", data)
         IN IF completed.raised
            THEN handle_error(TypeError, [todos EXCEPT ![todo_id] = completed.todo])
            ELSE LET patched == Stamp(completed.todo, t)
                 IN log_operation("patch_todo",
                                  Reply(200, TodoBody(patched),
                                        [todos EXCEPT ![todo_id] = patched], next_id, t))

\* pop that leaves the entry in the mapping
PopKeeps(store, todo_id) == store

\* the mapping after todos.pop(todo_id)
Pop(store, todo_id) == [k \in DOMAIN store \ {todo_id} |-> store[k]]

\* DELETE /todos/<id>
delete_todo(todo_id) ==
    IF todo_id \notin DOMAIN todos
    THEN log_operation("delete_todo_not_found", Reply(404, NotFound(todo_id), todos, next_id, now))
    ELSE LET deleted_todo == todos[todo_id]
         IN log_operation("delete_todo",
                Reply(200,
                      [kind |-> "deleted", message |-> "Todo deleted successfully",
                       todo |-> deleted_todo],
                      Pop(todos, todo_id), next_id, now))

\* GET /
root(t) ==
    log_operation("api_info_requested",
        Reply(200, [kind |-> "info", name |-> "Todo CRUD API", version |-> "1.0.0",
                    timestamp |-> isoformat(t)],
              todos, next_id, t))

\* werkzeug's NotFound, raised when no route matches the URL
NoRoute == [http |-> TRUE, code |-> 404,
            description |-> <<"The requested URL was not found on the server.">>]

\* a request no route matches: the framework's exception goes to handle_error
no_route == handle_error(NoRoute, todos)

\* app.before_request: log_request leaves one record
log_request == <<"incoming_request">>

\* app.after_request: log_response leaves one record for the response r
log_response(r) == <<"outgoing_response">>

\* the records one request leaves on the logger, in order: before_request,
\* the handler (or handle_error) that gave reply r, after_request
Records(r) == log_request \o r.log \o log_response(r)

----------------------------------------------------------------------------
(* The state machine: one action per route. *)

\* the ids requests name: every id a create can assign, and one none can
TodoIds == 1..(MaxTodos + 1)

\* the threads of the server
Threads == 1..MaxThreads

\* a thread between requests; status is the status code of its last response
Idle(status) ==
    [pc |-> "done", op |-> "NONE", todo_id |-> 0, data |-> NoData,
     todo |-> <<>>, tmp |-> 0, status |-> status]

Init ==
    /\ todos = [k \in {} |-> 0]
    /\ next_id = 1
    /\ now = 0
    /\ issued = <<>>
    /\ deleted = {}
    /\ n_deleted = 0
    /\ born = [k \in {} |-> 0]
    /\ written = [k \in {} |-> 0]
    /\ threads = [th \in Threads |-> Idle(0)]

\* the request op (on todo_id) is answered with r
Handle(op, todo_id, r) ==
    /\ todos' = r.todos
    /\ next_id' = r.next_id
    /\ now' = r.now
    /\ issued' = IF op = "POST" /\ r.status = 201
                 THEN Append(issued, r.body.todo.id) ELSE issued
    /\ born' = IF op = "POST" /\ r.status = 201
               THEN (r.body.todo.id :> r.body.todo.created_at) @@ born ELSE born
    /\ deleted' = IF op = "DELETE" /\ r.status = 200
                  THEN deleted \cup {todo_id} ELSE deleted
    /\ n_deleted' = IF op = "DELETE" /\ r.status = 200
                    THEN n_deleted + 1 ELSE n_deleted
    /\ written' = CASE op = "POST" /\ r.status = 201 ->
                         (r.body.todo.id :> r.body.todo) @@ written
                     [] op \in {"PUT", "PATCH"} /\ r.status = 200 ->
                         (todo_id :> r.body.todo) @@ written
                     [] op = "DELETE" /\ r.status = 200 ->
                         [k \in DOMAIN written \ {todo_id} |-> written[k]]
                     [] OTHER -> written
    /\ UNCHANGED threads

Health ==
    \E t \in Clock(now) : Handle("HEALTH", 0, health_check(t))

List == Handle("LIST", 0, get_todos)

GetOne ==
    \E todo_id \in TodoIds : Handle("GET", todo_id, get_todo(todo_id))

Post ==
    \E is_json \in BOOLEAN : \E data \in SentOf(is_json) :
    \E t1 \in Clock(now) : \E t2 \in Clock(t1) :
        LET r == create_todo(is_json, data, t1, t2)
        IN /\ r.status = 201 => next_id <= MaxTodos
           /\ Handle("POST", 0, r)

Put ==
    \E todo_id \in TodoIds : \E is_json \in BOOLEAN : \E data \in SentOf(is_json) :
    \E t \in Clock(now) :
        Handle("PUT", todo_id, update_todo(todo_id, is_json, data, t))

Patch ==
    \E todo_id \in TodoIds : \E is_json \in BOOLEAN : \E data \in SentOf(is_json) :
    \E t \in Clock(now) :
        Handle("PATCH", todo_id, patch_todo(todo_id, is_json, data, t))

Delete ==
    \E todo_id \in TodoIds : Handle("DELETE", todo_id, delete_todo(todo_id))

Root ==
    \E t \in Clock(now) : Handle("ROOT", 0, root(t))

Unrouted == Handle("NONE", 0, no_route)

Next == Health \/ List \/ GetOne \/ Post \/ Put \/ Patch \/ Delete \/ Root \/ Unrouted

Spec == Init /\ [][Next]_vars

----------------------------------------------------------------------------
(* The same handlers run by the threads of app.run, which serves each      *)
(* request in a thread of its own and takes no lock: a thread can be       *)
(* switched out between two statements, and between the read and the write *)
(* of `next_id += 1`.  The requests carry a JSON content type and a JSON   *)
(* object, so that no handler raises on its body.                          *)

\* the exception of todos[todo_id] and todos.pop(todo_id) on a missing key
KeyError == [http |-> FALSE, code |-> 0, description |-> <<"KeyError">>]

\* the body of the requests the threads take, by method, and their ids
ConcBody(op) ==
    CASE op = "POST" -> Obj("title" :> JStr("a"))
      [] op \in {"PUT", "PATCH"} -> Obj("completed" :> JTrue)
      [] OTHER -> NoData
ConcIds == 1..MaxTodos

\* what utcnow() returns to the threads: the races are about todos and
\* next_id, and the clock stands still while they run
ConcClock == {now}

\* the thread sends its response and is free again
Respond(th, status) == threads' = [threads EXCEPT ![th] = Idle(status)]

\* the thread moves on to the statement pc
Goto(th, pc) == threads' = [threads EXCEPT ![th].pc = pc]

\* a free thread takes a request
Receive(th) ==
    /\ threads[th].pc = "done"
    /\ \E op \in {"GET", "POST", "PUT", "PATCH", "DELETE"} :
       \E todo_id \in IF op = "POST" THEN {0} ELSE ConcIds :
          threads' = [threads EXCEPT ![th] =
                         [pc |-> "check", op |-> op, todo_id |-> todo_id,
                          data |-> ConcBody(op), todo |-> <<>>, tmp |-> 0, status |-> 0]]
    /\ UNCHANGED <<todos, next_id, now, issued, deleted, n_deleted, born, written>>

\* create_todo, lines 161-180: the checks, and the record built with the
\* value of next_id read on line 174
CreateBuild(th) ==
    /\ threads[th].pc = "check" /\ threads[th].op = "POST"
    /\ \E t1 \in ConcClock : \E t2 \in ConcClock :
          LET r == create_todo(TRUE, threads[th].data, t1, t2)
          IN IF r.status # 201
             THEN Respond(th, r.status) /\ now' = now
             ELSE /\ next_id <= MaxTodos
                  /\ threads' = [threads EXCEPT ![th].pc = "store",
                                                ![th].todo = <<r.body.todo>>]
                  /\ now' = t2
    /\ UNCHANGED <<todos, next_id, issued, deleted, n_deleted, born, written>>

\* line 182: todos[next_id] = todo, with next_id read again
CreateStore(th) ==
    /\ threads[th].pc = "store"
    /\ todos' = (next_id :> threads[th].todo[1]) @@ todos
    /\ Goto(th, "load")
    /\ UNCHANGED <<next_id, now, issued, deleted, n_deleted, born, written>>

\* line 185, `next_id += 1`: the read of next_id
CreateLoad(th) ==
    /\ threads[th].pc = "load"
    /\ threads' = [threads EXCEPT ![th].pc = "add", ![th].tmp = next_id]
    /\ UNCHANGED <<todos, next_id, now, issued, deleted, n_deleted, born, written>>

\* line 185, `next_id += 1`: the write; line 187: the 201 with the record
CreateAdd(th) ==
    /\ threads[th].pc = "add"
    /\ next_id' = threads[th].tmp + 1
    /\ issued' = Append(issued, threads[th].todo[1].id)
    /\ Respond(th, 201)
    /\ UNCHANGED <<todos, now, deleted, n_deleted, born, written>>

\* get_todo, lines 148-150: `if todo_id not in todos`
GetCheck(th) ==
    /\ threads[th].pc = "check" /\ threads[th].op = "GET"
    /\ IF threads[th].todo_id \notin DOMAIN todos
       THEN Respond(th, get_todo(threads[th].todo_id).status)
       ELSE Goto(th, "read")
    /\ UNCHANGED <<todos, next_id, now, issued, deleted, n_deleted, born, written>>

\* get_todo, lines 152-154: todo = todos[todo_id]
GetRead(th) ==
    /\ threads[th].pc = "read"
    /\ IF threads[th].todo_id \notin DOMAIN todos
       THEN Respond(th, handle_error(KeyError, todos).status)
       ELSE Respond(th, get_todo(threads[th].todo_id).status)
    /\ UNCHANGED <<todos, next_id, now, issued, deleted, n_deleted, born, written>>

\* update_todo / patch_todo, lines 192-200 / 220-228: the checks
UpdateCheck(th) ==
    /\ threads[th].pc = "check" /\ threads[th].op \in {"PUT", "PATCH"}
    /\ IF threads[th].todo_id \notin DOMAIN todos
       THEN Respond(th, update_todo(threads[th].todo_id, TRUE, threads[th].data, now).status)
       ELSE Goto(th, "copy")
    /\ UNCHANGED <<todos, next_id, now, issued, deleted, n_deleted, born, written>>

\* lines 201 / 229: old_todo = todos[todo_id].copy()
UpdateCopy(th) ==
    /\ threads[th].pc = "copy"
    /\ IF threads[th].todo_id \notin DOMAIN todos
       THEN Respond(th, handle_error(KeyError, todos).status)
       ELSE Goto(th, "merge")
    /\ UNCHANGED <<todos, next_id, now, issued, deleted, n_deleted, born, written>>

\* lines 204-211 / 232-239: the three fields and updated_at, each written
\* through todos[todo_id]
UpdateMerge(th) ==
    /\ threads[th].pc = "merge"
    /\ IF threads[th].todo_id \notin DOMAIN todos
       THEN /\ Respond(th, handle_error(KeyError, todos).status)
            /\ UNCHANGED <<todos, now>>
       ELSE \E t \in ConcClock :
               LET r == IF threads[th].op = "PUT"
                        THEN update_todo(threads[th].todo_id, TRUE, threads[th].data, t)
                        ELSE patch_todo(threads[th].todo_id, TRUE, threads[th].data, t)
               IN /\ todos' = r.todos
                  /\ now' = r.now
                  /\ Goto(th, "return")
    /\ UNCHANGED <<next_id, issued, deleted, n_deleted, born, written>>

\* lines 213-215 / 241-243: the log record and the response read todos[todo_id]
UpdateReturn(th) ==
    /\ threads[th].pc = "return"
    /\ IF threads[th].todo_id \notin DOMAIN todos
       THEN Respond(th, handle_error(KeyError, todos).status)
       ELSE Respond(th, 200)
    /\ UNCHANGED <<todos, next_id, now, issued, deleted, n_deleted, born, written>>

\* delete_todo, lines 248-250: `if todo_id not in todos`
DeleteCheck(th) ==
    /\ threads[th].pc = "check" /\ threads[th].op = "DELETE"
    /\ IF threads[th].todo_id \notin DOMAIN todos
       THEN Respond(th, delete_todo(threads[th].todo_id).status)
       ELSE Goto(th, "pop")
    /\ UNCHANGED <<todos, next_id, now, issued, deleted, n_deleted, born, written>>

\* delete_todo, lines 252-255: deleted_todo = todos.pop(todo_id)
DeletePop(th) ==
    /\ threads[th].pc = "pop"
    /\ IF threads[th].todo_id \notin DOMAIN todos
       THEN /\ Respond(th, handle_error(KeyError, todos).status)
            /\ UNCHANGED <<todos, deleted, n_deleted>>
       ELSE /\ Respond(th, delete_todo(threads[th].todo_id).status)
            /\ todos' = delete_todo(threads[th].todo_id).todos
            /\ deleted' = deleted \cup {threads[th].todo_id}
            /\ n_deleted' = n_deleted + 1
    /\ UNCHANGED <<next_id, now, issued, born, written>>

NextConc ==
    \E th \in Threads :
        \/ Receive(th)
        \/ CreateBuild(th) \/ CreateStore(th) \/ CreateLoad(th) \/ CreateAdd(th)
        \/ GetCheck(th) \/ GetRead(th)
        \/ UpdateCheck(th) \/ UpdateCopy(th) \/ UpdateMerge(th) \/ UpdateReturn(th)
        \/ DeleteCheck(th) \/ DeletePop(th)

SpecConc == Init /\ [][NextConc]_vars

\* create_todo run without a switch, lines 161-187 in one step
CreateWhole(th) ==
    /\ threads[th].pc = "check" /\ threads[th].op = "POST"
    /\ \E t1 \in ConcClock : \E t2 \in ConcClock :
          LET r == create_todo(TRUE, threads[th].data, t1, t2)
          IN /\ r.status = 201 => next_id <= MaxTodos
             /\ todos' = r.todos
             /\ next_id' = r.next_id
             /\ now' = r.now
             /\ issued' = IF r.status = 201 THEN Append(issued, r.body.todo.id) ELSE issued
             /\ Respond(th, r.status)
    /\ UNCHANGED <<deleted, n_deleted, born, written>>

\* the threads with every create run whole: what is left to interleave is
\* GET, PUT, PATCH and DELETE
NextRace ==
    \E th \in Threads :
        \/ Receive(th)
        \/ CreateWhole(th)
        \/ GetCheck(th) \/ GetRead(th)
        \/ UpdateCheck(th) \/ UpdateCopy(th) \/ UpdateMerge(th) \/ UpdateReturn(th)
        \/ DeleteCheck(th) \/ DeletePop(th)

SpecRace == Init /\ [][NextRace]_vars

----------------------------------------------------------------------------
(* Properties. *)

\* the fields a PUT or PATCH body can overwrite
Mergeable == {"title", "description", "completed"}

\* the mergeable keys the body carries
Present(data) == IF data.kind = "object" THEN DOMAIN data.obj \cap Mergeable ELSE {}

\* the record a merge of data into old at clock value t is to give
Merged(old, data, t) ==
    [f \in DOMAIN old |->
        IF f \in Present(data) THEN data.obj[f]
        ELSE IF f = "updated_at" THEN isoformat(t)
        ELSE old[f]]

\* a JSON object without a title, or with the empty string as its title
LacksTitle(data) ==
    /\ data.kind = "object"
    /\ "title" \in DOMAIN data.obj => data.obj["title"] = JStr("")

\* C1: the id a successful POST /todos returns is greater than every id a
\* successful create returned before, deleted or not.
C1_CreatedIdIsNew ==
    \A data \in JsonBodies : \A t1 \in Clock(now) : \A t2 \in Clock(t1) :
        LET r == create_todo(TRUE, data, t1, t2)
        IN r.status = 201 =>
              \A i \in 1..Len(issued) : issued[i] < r.body.todo.id

\* two creates have succeeded and the todo of the first has been deleted
C1_Witness == Len(issued) >= 2 /\ issued[1] \in deleted

\* C2: an id whose DELETE has succeeded is absent from the store ever after,
\* and GET, PUT, PATCH and DELETE on it answer 404.
C2_DeletedStaysGone ==
    \A todo_id \in deleted :
        /\ todo_id \notin DOMAIN todos
        /\ get_todo(todo_id).status = 404
        /\ delete_todo(todo_id).status = 404
        /\ \A is_json \in BOOLEAN : \A data \in BodiesOf(is_json) : \A t \in Clock(now) :
              /\ update_todo(todo_id, is_json, data, t).status = 404
              /\ patch_todo(todo_id, is_json, data, t).status = 404

\* a todo was deleted and a todo created with a greater id is in the store
C2_Witness == \E d \in deleted : \E k \in DOMAIN todos : k > d

\* C3: the count of GET /todos and the todos_count of GET /health equal the
\* successful creates minus the successful deletes.
C3_CountIsCreatesMinusDeletes ==
    /\ get_todos.body.count = Len(issued) - n_deleted
    /\ \A t \in Clock(now) :
          health_check(t).body.todos_count = Len(issued) - n_deleted

\* two creates and a delete have succeeded
C3_Witness == Len(issued) = 2 /\ n_deleted = 1 /\ get_todos.body.count = 1

\* the step is a POST /todos with JSON body data and clock values t1, t2
PostStep(data, t1, t2) == Handle("POST", 0, create_todo(TRUE, data, t1, t2))

\* C4: a POST /todos whose JSON object has no title, or the empty string as
\* title, is answered 400 and leaves todos and next_id as they were.
C4_NoTitleRejected ==
    [][\A data \in JsonBodies : \A t1 \in Clock(now) : \A t2 \in Clock(t1) :
          (LacksTitle(data) /\ PostStep(data, t1, t2)) =>
              /\ create_todo(TRUE, data, t1, t2).status = 400
              /\ todos' = todos
              /\ next_id' = next_id]_vars

\* C5: every todo in the store has a non-empty string as its title.
C5_TitlesNonEmpty ==
    \A k \in DOMAIN todos :
        todos[k].title.type = "string" /\ todos[k].title.val # ""

\* C6: a successful PUT or PATCH overwrites the fields whose keys the body
\* carries, refreshes updated_at, and changes nothing else: not the other
\* fields, not the other todos, not next_id.
C6_MergeOnlyPresentKeys ==
    \A todo_id \in DOMAIN todos : \A data \in JsonBodies : \A t \in Clock(now) :
        LET put == update_todo(todo_id, TRUE, data, t)
            patch == patch_todo(todo_id, TRUE, data, t)
            want == Merged(todos[todo_id], data, t)
        IN /\ put.status = 200 =>
                /\ put.todos = [todos EXCEPT ![todo_id] = want]
                /\ put.body = TodoBody(want)
                /\ put.next_id = next_id
           /\ patch.status = 200 =>
                /\ patch.todos = [todos EXCEPT ![todo_id] = want]
                /\ patch.body = TodoBody(want)
                /\ patch.next_id = next_id

\* a todo created with title "a" has had its description and completed
\* overwritten and its title kept, and an empty object updates it again
C6_Witness ==
    \E k \in DOMAIN todos :
        /\ todos[k].title = JStr("a")
        /\ todos[k].description = JStr("d")
        /\ todos[k].completed = JTrue
        /\ update_todo(k, TRUE, Obj(EmptyObj), now).status = 200
        /\ patch_todo(k, TRUE, Obj("completed" :> JFalse), now).status = 200

\* C7: PUT and PATCH answer every request alike: the same status, the same
\* response body, the same store and counter afterwards.
C7_PutEqualsPatch ==
    \A todo_id \in TodoIds : \A is_json \in BOOLEAN :
    \A data \in BodiesOf(is_json) : \A t \in Clock(now) :
        LET put == update_todo(todo_id, is_json, data, t)
            patch == patch_todo(todo_id, is_json, data, t)
        IN /\ put.status = patch.status
           /\ put.body = patch.body
           /\ put.todos = patch.todos
           /\ put.next_id = patch.next_id

\* a state where PUT and PATCH take every path: 200, 400, 404 and 500
C7_Witness ==
    \E k \in DOMAIN todos : \E d \in deleted :
        /\ update_todo(k, TRUE, Obj("completed" :> JTrue), now).status = 200
        /\ patch_todo(k, FALSE, NoData, now).status = 400
        /\ patch_todo(k, TRUE, Null, now).status = 500
        /\ update_todo(d, TRUE, Obj(EmptyObj), now).status = 404

\* C8: the record a successful POST /todos returns, and the one it stores,
\* have created_at equal to updated_at.
C8_CreatedEqualsUpdated ==
    [][\A data \in JsonBodies : \A t1 \in Clock(now) : \A t2 \in Clock(t1) :
          LET r == create_todo(TRUE, data, t1, t2)
          IN (r.status = 201 /\ PostStep(data, t1, t2)) =>
                /\ r.body.todo.created_at = r.body.todo.updated_at
                /\ todos'[r.body.todo.id].created_at = todos'[r.body.todo.id].updated_at]_vars

\* C9: a stored todo keeps the id and the created_at its create returned,
\* whatever PUT and PATCH requests it has taken.
C9_IdAndCreatedAtKept ==
    \A k \in DOMAIN todos :
        /\ k \in DOMAIN born
        /\ todos[k].id = k
        /\ todos[k].created_at = born[k]

\* a todo has been updated by the body that carries id and created_at keys
C9_Witness ==
    \E k \in DOMAIN todos :
        /\ todos[k].description = JStr("d")
        /\ todos[k].updated_at # todos[k].created_at

\* C10: with a clock that never goes backwards, every stored todo has
\* updated_at at or after created_at, and a successful PUT or PATCH never
\* moves updated_at back.
C10_UpdatedAtNeverBehind ==
    /\ \A k \in DOMAIN todos :
          Instant(todos[k].updated_at) >= Instant(todos[k].created_at)
    /\ \A k \in DOMAIN todos : \A data \in JsonBodies : \A t \in Clock(now) :
          LET put == update_todo(k, TRUE, data, t)
              patch == patch_todo(k, TRUE, data, t)
          IN /\ put.status = 200 =>
                  Instant(put.todos[k].updated_at) >= Instant(todos[k].updated_at)
             /\ patch.status = 200 =>
                  Instant(patch.todos[k].updated_at) >= Instant(todos[k].updated_at)

\* a todo has been updated at a later clock value than it was created at
C10_Witness ==
    \E k \in DOMAIN todos :
        /\ todos[k].completed = JTrue
        /\ Instant(todos[k].updated_at) > Instant(todos[k].created_at)

\* C11, as stated: a POST /todos, and a PUT or PATCH on any id, in the store
\* or not, that carries no JSON content type is answered 400 and leaves the
\* store as it was.
C11_NoJsonAlways400 ==
    /\ LET r == create_todo(FALSE, NoData, now, now)
       IN r.status = 400 /\ r.todos = todos /\ r.next_id = next_id
    /\ \A todo_id \in TodoIds : \A t \in Clock(now) :
          LET put == update_todo(todo_id, FALSE, NoData, t)
              patch == patch_todo(todo_id, FALSE, NoData, t)
          IN /\ put.status = 400 /\ put.todos = todos /\ put.next_id = next_id
             /\ patch.status = 400 /\ patch.todos = todos /\ patch.next_id = next_id

\* C11, amended: without a JSON content type a POST /todos is answered 400,
\* and a PUT or PATCH is answered 400 on an id in the store and 404 on an id
\* not in the store; in each case the store stays as it was.
C11_NoJsonIs400OnStoredIds ==
    /\ LET r == create_todo(FALSE, NoData, now, now)
       IN r.status = 400 /\ r.todos = todos /\ r.next_id = next_id
    /\ \A todo_id \in TodoIds : \A t \in Clock(now) :
          LET put == update_todo(todo_id, FALSE, NoData, t)
              patch == patch_todo(todo_id, FALSE, NoData, t)
              want == IF todo_id \in DOMAIN todos THEN 400 ELSE 404
          IN /\ put.status = want /\ put.todos = todos /\ put.next_id = next_id
             /\ patch.status = want /\ patch.todos = todos /\ patch.next_id = next_id

\* the store holds a todo and lacks another id, and a PATCH without a JSON
\* content type is answered 400 on the first and 404 on the second
C11_Witness ==
    \E k \in DOMAIN todos : \E d \in TodoIds \ DOMAIN todos :
        /\ patch_todo(k, FALSE, NoData, now).status = 400
        /\ patch_todo(d, FALSE, NoData, now).status = 404
        /\ update_todo(d, FALSE, NoData, now).status = 404

\* C12: GET, PUT, PATCH and DELETE on an id not in the store each answer 404
\* with the body {error: "Todo with id <id> not found"} naming that id, and
\* leave todos and next_id as they were.
C12_AbsentIdIs404 ==
    \A todo_id \in TodoIds \ DOMAIN todos :
        LET body == [kind |-> "error",
                     error |-> <<"Todo with id ", todo_id, " not found">>]
            Is404(r) == /\ r.status = 404
                        /\ r.body = body
                        /\ r.todos = todos
                        /\ r.next_id = next_id
        IN /\ Is404(get_todo(todo_id))
           /\ Is404(delete_todo(todo_id))
           /\ \A is_json \in BOOLEAN : \A data \in BodiesOf(is_json) : \A t \in Clock(now) :
                 /\ Is404(update_todo(todo_id, is_json, data, t))
                 /\ Is404(patch_todo(todo_id, is_json, data, t))

\* two ids are absent from a store that holds a todo: one deleted, one not
\* yet assigned, and GET answers 404 on both
C12_Witness ==
    \E d \in deleted : \E u \in TodoIds \ DOMAIN todos :
        /\ u >= next_id
        /\ DOMAIN todos # {}
        /\ get_todo(d).status = 404
        /\ delete_todo(u).status = 404

\* P holds of the reply to every request that can be sent in this state
EveryReply(P(_)) ==
    /\ \A t \in Clock(now) : P(health_check(t)) /\ P(root(t))
    /\ P(get_todos)
    /\ P(no_route)
    /\ \A todo_id \in TodoIds : P(get_todo(todo_id)) /\ P(delete_todo(todo_id))
    /\ \A is_json \in BOOLEAN : \A data \in BodiesOf(is_json) :
          /\ \A t1 \in Clock(now) : \A t2 \in Clock(t1) :
                P(create_todo(is_json, data, t1, t2))
          /\ \A todo_id \in TodoIds : \A t \in Clock(now) :
                /\ P(update_todo(todo_id, is_json, data, t))
                /\ P(patch_todo(todo_id, is_json, data, t))

\* the request answered with r left three records: incoming_request, one
\* record of the operation or error, outgoing_response
ThreeRecords(r) ==
    LET records == Records(r)
    IN /\ Len(records) = 3
       /\ records[1] = "incoming_request"
       /\ records[2] \notin {"incoming_request", "outgoing_response"}
       /\ records[3] = "outgoing_response"

\* C13: every request, on whichever path it is answered (success, validation
\* failure, not found, framework HTTP error, unhandled exception), leaves
\* exactly one incoming_request record, then exactly one record of the
\* operation or error outcome, then exactly one outgoing_response record.
C13_ThreeRecordsInOrder == EveryReply(ThreeRecords)

\* a state where requests take each of the five paths
C13_Witness ==
    \E k \in DOMAIN todos : \E d \in deleted :
        /\ Records(delete_todo(k)) = <<"incoming_request", "delete_todo", "outgoing_response">>
        /\ Records(create_todo(TRUE, Obj(EmptyObj), now, now))[2] = "create_todo_missing_title"
        /\ Records(get_todo(d))[2] = "get_todo_not_found"
        /\ Records(no_route)[2] = "http_error"
        /\ Records(create_todo(TRUE, Malformed, now, now))[2] = "http_error"
        /\ Records(update_todo(k, TRUE, Null, now))[2] = "Unhandled exception"

\* a request answered 500 got the generic body and left the store alone
GenericFailure(r) ==
    /\ r.status \in {200, 201, 400, 404, 500}
    /\ r.status = 500 =>
          /\ r.body = [kind |-> "error", error |-> <<"Internal server error">>]
          /\ r.todos = todos
          /\ r.next_id = next_id

\* C14: a request whose handler raises an exception that is not an HTTP
\* error is answered 500 with the body {error: "Internal server error"} and
\* nothing of the exception; every request gets one response, and the store
\* and counter the later requests are served from are as the failed one
\* found them.
C14_FailureIsGenericAndHarmless == EveryReply(GenericFailure)

\* after two creates and a delete, a PUT with body null on a stored todo and
\* a POST with body 5 are answered 500, and a GET on the todo still 200
C14_Witness ==
    \E k \in DOMAIN todos :
        /\ Len(issued) = 2 /\ n_deleted = 1
        /\ update_todo(k, TRUE, Null, now).status = 500
        /\ create_todo(TRUE, Num("5"), now, now).status = 500
        /\ get_todo(k).status = 200

\* the six fields of a todo record
TodoFields == {"id", "title", "description", "completed", "created_at", "updated_at"}

\* C15: for every id in the store, GET /todos/{id} answers 200 with a record
\* equal in all six fields to the one the latest successful create, PUT or
\* PATCH of that id returned, and a DELETE of the id returns that record too.
C15_GetReturnsLastWritten ==
    \A k \in DOMAIN todos :
        /\ k \in DOMAIN written
        /\ get_todo(k).status = 200
        /\ delete_todo(k).status = 200
        /\ \A f \in TodoFields :
              /\ get_todo(k).body.todo[f] = written[k][f]
              /\ delete_todo(k).body.todo[f] = written[k][f]

\* a stored todo whose latest write was a PUT or PATCH at a later clock
\* value, after a DELETE has succeeded
C15_Witness ==
    \E k \in DOMAIN todos :
        /\ written[k].updated_at # written[k].created_at
        /\ written[k].completed = JTrue
        /\ get_todo(k).body.todo = written[k]
        /\ n_deleted >= 1

\* the bodies that parse as JSON: objects, arrays, strings, numbers,
\* booleans and null
WellFormed == {data \in JsonBodies : data.kind # "malformed"}

\* C17: with a JSON content type and a body that is well-formed JSON of any
\* kind, POST /todos answers only 201 or 400, and PUT and PATCH on an id in
\* the store answer only 200 or 400: never 500.
C17_WellFormedNever500 ==
    \A data \in WellFormed :
        /\ \A t1 \in Clock(now) : \A t2 \in Clock(t1) :
              create_todo(TRUE, data, t1, t2).status \in {201, 400}
        /\ \A todo_id \in DOMAIN todos : \A t \in Clock(now) :
              /\ update_todo(todo_id, TRUE, data, t).status \in {200, 400}
              /\ patch_todo(todo_id, TRUE, data, t).status \in {200, 400}

\* the reply r of a request that is not a create leaves the counter alone,
\* and leaves the store alone unless it is a 200
KeepsCounter(r) ==
    /\ r.next_id = next_id
    /\ r.status # 200 => r.todos = todos

\* C18: next_id changes only in a successful create, and then by exactly +1:
\* every GET, PUT, PATCH and DELETE, and every request answered 400, 404 or
\* 500, leaves it as it was; a mutation request not answered 200 or 201
\* leaves todos as it was, and a GET always does.  So a failed create uses
\* up no id, and the k-th successful create returns id k.
C18_CounterMovesOnlyOnCreate ==
    /\ \A t \in Clock(now) :
          /\ KeepsCounter(health_check(t)) /\ health_check(t).todos = todos
          /\ KeepsCounter(root(t)) /\ root(t).todos = todos
    /\ KeepsCounter(get_todos) /\ get_todos.todos = todos
    /\ KeepsCounter(no_route) /\ no_route.todos = todos
    /\ \A todo_id \in TodoIds :
          /\ KeepsCounter(get_todo(todo_id)) /\ get_todo(todo_id).todos = todos
          /\ KeepsCounter(delete_todo(todo_id))
    /\ \A is_json \in BOOLEAN : \A data \in BodiesOf(is_json) :
          /\ \A todo_id \in TodoIds : \A t \in Clock(now) :
                /\ KeepsCounter(update_todo(todo_id, is_json, data, t))
                /\ KeepsCounter(patch_todo(todo_id, is_json, data, t))
          /\ \A t1 \in Clock(now) : \A t2 \in Clock(t1) :
                LET r == create_todo(is_json, data, t1, t2)
                IN IF r.status = 201
                   THEN r.next_id = next_id + 1 /\ r.body.todo.id = Len(issued) + 1
                   ELSE r.next_id = next_id /\ r.todos = todos
    /\ \A k \in 1..Len(issued) : issued[k] = k

\* two creates have succeeded with a delete between them, and creates with
\* no title, with no JSON content type and with a body that raises fail now
C18_Witness ==
    /\ Len(issued) = 2
    /\ issued[1] \in deleted
    /\ issued[2] \in DOMAIN todos
    /\ create_todo(TRUE, Obj(EmptyObj), now, now).status = 400
    /\ create_todo(FALSE, NoData, now, now).status = 400
    /\ create_todo(TRUE, Null, now, now).status = 400
    /\ create_todo(TRUE, Num("5"), now, now).status = 500

\* C19: every key k of todos maps to a record whose id is k, and
\* 1 <= k < next_id.
C19_KeyIsIdBelowCounter ==
    \A k \in DOMAIN todos :
        /\ todos[k].id = k
        /\ 1 <= k
        /\ k < next_id

\* the store holds as many todos as the bound allows, one of them updated
C19_Witness ==
    /\ Cardinality(DOMAIN todos) = MaxTodos
    /\ next_id = MaxTodos + 1
    /\ \E k \in DOMAIN todos : todos[k].updated_at # todos[k].created_at

\* no thread is inside create_todo
NoCreateInFlight == \A th \in Threads : threads[th].op # "POST"

\* C16: when creates are served at the same time, their steps (read next_id,
\* store the record under it, increment next_id) interleaved, the creates
\* still return distinct ids, every stored key holds the record of that id,
\* and once the creates have returned the counter has advanced by one per
\* create and every returned id is in the store unless deleted since.
C16_ConcurrentCreatesKeepIds ==
    /\ \A i, j \in 1..Len(issued) : i # j => issued[i] # issued[j]
    /\ \A k \in DOMAIN todos : todos[k].id = k
    /\ NoCreateInFlight =>
          /\ next_id = Len(issued) + 1
          /\ \A i \in 1..Len(issued) : issued[i] \in DOMAIN todos \cup deleted

\* C20: when a DELETE runs between the presence check of another GET, PUT,
\* PATCH or DELETE of the same id and that handler's later accesses to
\* todos[id], the other request is answered 200 or 404, never 500, and no
\* deleted todo comes back into the store.
C20_RacingDeleteNever500 ==
    /\ \A th \in Threads : threads[th].status \in {0, 200, 201, 404}
    /\ \A todo_id \in deleted : todo_id \notin DOMAIN todos

\* the part of C20 that holds: no id whose DELETE succeeded is in the store
C20_DeletedNotReinserted == \A todo_id \in deleted : todo_id \notin DOMAIN todos

====
